---- MODULE Spec2Model ----
(***************************************************************************)
(* A model of .github/workflows/scripts/spawn-devnet.py: the script that   *)
(* reacts to a pull-request comment, fetches the wasm and binaries         *)
(* artifacts of the PR's head commit, generates a genesis setup with the   *)
(* namadac binary, publishes it and dispatches the release workflow.       *)
(*                                                                         *)
(* Text the script slices or matches (the comment body, the genesis folder *)
(* path, commit hashes) is a sequence of one-character strings.  A         *)
(* subprocess.CompletedProcess is the sequence <<returncode>>; a variable  *)
(* the script has not assigned yet is <<>>.  The GhApi calls return an     *)
(* answer; every subprocess returns 0 or 1.  `calls` lists the external    *)
(* calls of the run in order, each with its arguments.                     *)
(***************************************************************************)
EXTENDS Integers, Sequences, FiniteSets, TLC

VARIABLES run, twin

vars == <<run, twin>>

-----------------------------------------------------------------------------
(* Bounds of the model *)

\* longest comment body enumerated by InitParse
MaxBody == 6

\* longest genesis folder path enumerated by InitChain
MaxPath == 8

\* longest artifact listing returned by list_artifacts_for_repo
MaxArtifacts == 2

\* most entries of a checksums.json manifest
MaxWasm == 2

-----------------------------------------------------------------------------
(* Program constants *)

ARTIFACT_PER_PAGE == 75

WASM_BUCKET == <<"namada-wasm-master">>

CHAIN_DATA_BUCKET == <<"namada-chain-data-master">>

\* `7 if len(parameters) == 1`
DefaultRetention == 7

-----------------------------------------------------------------------------
(* Python string operations, on sequences of characters *)

SeqsUpTo(S, n) == UNION {[1..k -> S] : k \in 0..n}

StartsWith(s, p) == Len(s) >= Len(p) /\ SubSeq(s, 1, Len(p)) = p

\* str.split(sep) scanning `rest` with the piece `cur` collected so far
RECURSIVE split_scan(_, _, _)
split_scan(rest, sep, cur) ==
  IF rest = <<>> THEN <<cur>>
  ELSE IF StartsWith(rest, sep)
       THEN <<cur>> \o split_scan(SubSeq(rest, Len(sep) + 1, Len(rest)), sep, <<>>)
       ELSE split_scan(Tail(rest), sep, Append(cur, Head(rest)))

\* s.split(sep)
str_split(s, sep) == split_scan(s, sep, <<>>)

\* the longest prefix of s matching [^\]]*
RECURSIVE not_close_run(_)
not_close_run(s) ==
  IF s = <<>> \/ Head(s) = "]" THEN <<>>
  ELSE <<Head(s)>> \o not_close_run(Tail(s))

\* re.search('\[([^\]]+)', s): the leftmost "[" followed by at least one
\* character other than "]"; group(1) is the greedy run of such characters.
\* No match (None) is [matched |-> FALSE].
RECURSIVE re_search(_)
re_search(s) ==
  IF Len(s) < 2 THEN [matched |-> FALSE, group1 |-> <<>>]
  ELSE IF s[1] = "[" /\ s[2] # "]"
       THEN [matched |-> TRUE, group1 |-> not_close_run(Tail(s))]
       ELSE re_search(Tail(s))

\* s[:-5]
drop_last5(s) == IF Len(s) <= 5 THEN <<>> ELSE SubSeq(s, 1, Len(s) - 5)

\* s[0:7]
first7(s) == IF Len(s) <= 7 THEN s ELSE SubSeq(s, 1, 7)

-----------------------------------------------------------------------------
(* Values of the environment *)

\* the states the team-membership lookup can return
MembershipStates == {"active", "pending", "inactive"}

ShaA == <<"a", "b", "c", "d", "e", "f", "0", "1">>

ShaB == <<"a", "b", "c", "d", "e", "f", "0", "2">>

\* head commit of the pull request
PullHeads == {ShaA}

WasmName == <<"w", "a", "s", "m">>

BinariesName == <<"b", "i", "n", "a", "r", "i", "e", "s">>

DocsName == <<"d", "o", "c", "s">>

ArtifactNames == {WasmName, BinariesName, DocsName}

\* `kind in name`: kind occurs in name as a substring
Contains(kind, name) ==
  \E k \in 1..Len(name) :
    k + Len(kind) - 1 <= Len(name) /\ SubSeq(name, k, k + Len(kind) - 1) = kind

Urls == <<"url1", "url2", "url3", "url4">>

\* one entry of artifacts['artifacts'], at position k of the listing
Artifact(d, k) ==
  [name |-> d.name,
   workflow_run |-> [head_sha |-> d.head_sha],
   expired |-> d.expired,
   archive_download_url |-> <<Urls[k]>>]

Descriptors == [name : ArtifactNames, head_sha : {ShaA, ShaB}, expired : BOOLEAN]

\* the listings of one page of list_artifacts_for_repo(per_page=ARTIFACT_PER_PAGE)
Listings ==
  {[k \in 1..Len(l) |-> Artifact(l[k], k)] :
     l \in {x \in SeqsUpTo(Descriptors, MaxArtifacts) : Len(x) <= ARTIFACT_PER_PAGE}}

\* checksums.values(): the file names of a checksums.json, in order
WasmFiles == {<<"a.wasm">>, <<"b.wasm">>}

Manifests == SeqsUpTo(WasmFiles, MaxWasm)

ReturnCodes == {0, 1}

\* a word of namadac's output other than a path
Word == <<"w">>

\* namadac's stdout as its lines, each line as its space-separated fields
GenesisOutput(folder, archive) ==
  << <<Word, Word, Word, Word, folder>>, <<Word, Word, Word, Word, archive>> >>

RelativeFolder == <<"x", "/", "y", "-", "f", "u", "l", "l">>

AbsoluteFolder == <<"/", "x", "/", "y", "-", "f", "u", "l", "l">>

ArchivePath == <<"y", ".", "t", "g", "z">>

\* a folder path without "/"
BareFolder == <<"y", "-", "f", "u", "l", "l">>

\* two well-formed outputs, an output of one line, an output whose last line
\* is short, and an output whose folder has a single component
GenesisOutputs ==
  {GenesisOutput(RelativeFolder, ArchivePath),
   GenesisOutput(AbsoluteFolder, ArchivePath),
   << <<Word, Word, Word, Word, ArchivePath>> >>,
   << <<Word, Word, Word, Word, RelativeFolder>>, <<Word, Word, Word, ArchivePath>> >>,
   GenesisOutput(BareFolder, ArchivePath)}

-----------------------------------------------------------------------------
(* The state of one execution of the script *)

Call(op, args) == [op |-> op, args |-> args]

IntValue(n) == [type |-> "int", int |-> n, str |-> <<>>]

StrValue(s) == [type |-> "str", int |-> 0, str |-> s]

\* the process before its first statement, triggered by a comment `body`
StartRun(body) ==
  [pc |-> "membership", exit_code |-> <<>>, calls |-> <<>>,
   pr_comment |-> body, user_membership |-> "", head_sha |-> <<>>,
   short_sha |-> <<>>, parameters |-> <<>>, template_name |-> <<>>,
   retention_period |-> IntValue(0), artifacts |-> <<>>, i |-> 1,
   steps_done |-> 0, curl_command_outcome |-> <<>>,
   unzip_command_outcome |-> <<>>, checksums |-> <<>>, w |-> 1,
   publish_wasm_command_outcome |-> <<>>, template_command_outcome |-> <<>>,
   stdout |-> <<>>, genesis_folder_path |-> <<>>,
   release_archive_path |-> <<>>, chain_id |-> <<>>,
   zip_setup_command_outcome |-> <<>>, upload_release_command_outcome |-> <<>>,
   upload_setup_command_outcome |-> <<>>, dispath_command_outcome |-> <<>>]

\* exit(code)
Exit(r, code) == [r EXCEPT !.pc = "exit", !.exit_code = <<code>>]

\* an uncaught exception: the interpreter prints the traceback and exits 1
Raise(r) == [r EXCEPT !.pc = "crashed", !.exit_code = <<1>>]

\* the script ran off its last line
Finish(r) == [r EXCEPT !.pc = "done", !.exit_code = <<0>>]

\* outcome.returncode != 0
Failed(outcome) == outcome # <<>> /\ outcome[1] # 0

-----------------------------------------------------------------------------
(* Lines 85-102: the authorization gate and the comment parameters *)

\* the gate as it would be if only a pending membership were turned away
membership_gate_pending_only(r, state) ==
  LET c == [r EXCEPT !.user_membership = state,
                     !.calls = Append(@, Call("get_membership_for_user_in_org",
                                 << <<"heliaxdev">>, <<"company">>, <<"sender">> >>))]
  IN IF state = "pending" THEN Exit(c, 0) ELSE [c EXCEPT !.pc = "pulls_get"]

\* lines 85-88: the membership lookup; any state but "active" is exit(0)
membership_gate(r, state) ==
  LET c == [r EXCEPT !.user_membership = state,
                     !.calls = Append(@, Call("get_membership_for_user_in_org",
                                 << <<"heliaxdev">>, <<"company">>, <<"sender">> >>))]
  IN IF state # "active" THEN Exit(c, 0) ELSE [c EXCEPT !.pc = "pulls_get"]

\* lines 90-95: the PR's head commit and its 7-character prefix
pulls_get(r, sha) ==
  [r EXCEPT !.head_sha = sha, !.short_sha = first7(sha), !.pc = "parse_parameters",
            !.calls = Append(@, Call("pulls.get", << <<"pr_number">> >>))]

\* the split as it would be on a bare comma
split_parameters_on_comma(group) == str_split(group, <<",">>)

\* line 97: .group(1).split(', ')
split_parameters(group) == str_split(group, <<",", " ">>)

\* the template name as it would be if read from the end of the list
template_name_of_last(parameters) == parameters[Len(parameters)]

\* line 98: parameters[0]
template_name_of(parameters) == parameters[1]

\* line 99: 7 if len(parameters) == 1 else parameters[1]
retention_period_of(parameters) ==
  IF Len(parameters) = 1 THEN IntValue(DefaultRetention) ELSE StrValue(parameters[2])

\* the parse as it would be with a guard that turns a comment without
\* parameters into a silent exit
parse_parameters_guarded(r) ==
  LET m == re_search(r.pr_comment) IN
  IF ~m.matched THEN Exit(r, 0)
  ELSE [r EXCEPT !.parameters = str_split(m.group1, <<",", " ">>),
                 !.template_name = str_split(m.group1, <<",", " ">>)[1],
                 !.retention_period = retention_period_of(str_split(m.group1, <<",", " ">>)),
                 !.pc = "list_artifacts"]

\* lines 97-102: re.search(...) is None when nothing matches, and None.group
\* raises AttributeError
parse_parameters(r) ==
  LET m == re_search(r.pr_comment) IN
  IF ~m.matched THEN Raise(r)
  ELSE LET p == split_parameters(m.group1) IN
       [r EXCEPT !.parameters = p, !.template_name = template_name_of(p),
                 !.retention_period = retention_period_of(p),
                 !.pc = "list_artifacts"]

-----------------------------------------------------------------------------
(* Lines 104-152: the artifact loop *)

\* lines 110 and 134: name, commit and expiry of an artifact
Matches(kind, a, r) ==
  Contains(kind, a.name) /\ a.workflow_run.head_sha = r.head_sha /\ ~a.expired

\* lines 109, 110, 134: the loop advances from artifact r.i to the next one
\* that enters a branch; an artifact matching 'wasm' never reaches the elif
RECURSIVE for_artifact(_)
for_artifact(r) ==
  IF r.i > Len(r.artifacts) THEN [r EXCEPT !.pc = "check_steps"]
  ELSE IF Matches(WasmName, r.artifacts[r.i], r) THEN [r EXCEPT !.pc = "download_wasm"]
  ELSE IF Matches(BinariesName, r.artifacts[r.i], r) THEN [r EXCEPT !.pc = "download_binaries"]
  ELSE for_artifact([r EXCEPT !.i = @ + 1])

\* lines 104-109: the listing, steps_done = 0, and the loop's first iteration
list_artifacts(r, listing) ==
  for_artifact([r EXCEPT !.artifacts = listing, !.steps_done = 0, !.i = 1,
                         !.calls = Append(@, Call("list_artifacts_for_repo",
                                                  << <<"per_page">> >>))])

\* lines 10-11 with 111-116 or 135-140: curl the archive to <zip_name>.zip
download_artifact(r, zip_name, rc) ==
  LET c == [r EXCEPT !.curl_command_outcome = <<rc>>,
                     !.calls = Append(@, Call("download_artifact",
                                 <<r.artifacts[r.i].archive_download_url, <<zip_name>> >>))]
  IN IF Failed(c.curl_command_outcome) THEN Exit(c, 1)
     ELSE [c EXCEPT !.pc = IF zip_name = "wasm" THEN "unzip_wasm" ELSE "unzip_binaries"]

\* lines 14-15 with 118-121: unzip wasm.zip
unzip_wasm(r, rc) ==
  LET c == [r EXCEPT !.unzip_command_outcome = <<rc>>,
                     !.calls = Append(@, Call("unzip", << <<"wasm">> >>))]
  IN IF Failed(c.unzip_command_outcome) THEN Exit(c, 1)
     ELSE [c EXCEPT !.pc = "load_checksums"]

\* lines 123-124: checksums.json is read and its values iterated
load_checksums(r, manifest) ==
  [r EXCEPT !.checksums = manifest, !.w = 1,
            !.pc = IF manifest = <<>> THEN "done_wasm" ELSE "publish_wasm"]

\* the upload as it would be under the fail-fast policy of the other steps
publish_wasm_fatal(r, rc) ==
  LET c == [r EXCEPT !.publish_wasm_command_outcome = <<rc>>, !.w = @ + 1,
                     !.calls = Append(@, Call("publish_wasm",
                                              <<r.checksums[r.w], WASM_BUCKET>>))]
  IN IF rc # 0 THEN Exit(c, 1)
     ELSE [c EXCEPT !.pc = IF r.w + 1 > Len(r.checksums) THEN "done_wasm"
                           ELSE "publish_wasm"]

\* lines 18-19 with 124-129: one upload to the wasm bucket; a failure is
\* printed and the loop goes on
publish_wasm(r, rc) ==
  [r EXCEPT !.publish_wasm_command_outcome = <<rc>>, !.w = @ + 1,
            !.calls = Append(@, Call("publish_wasm", <<r.checksums[r.w], WASM_BUCKET>>)),
            !.pc = IF r.w + 1 > Len(r.checksums) THEN "done_wasm" ELSE "publish_wasm"]

\* lines 131-132, then the next iteration
done_wasm(r) ==
  for_artifact([r EXCEPT !.steps_done = @ + 1, !.i = @ + 1])

\* lines 14-15 with 142-148: unzip binaries.zip, count the step, next iteration
unzip_binaries(r, rc) ==
  LET c == [r EXCEPT !.unzip_command_outcome = <<rc>>,
                     !.calls = Append(@, Call("unzip", << <<"binaries">> >>))]
  IN IF Failed(c.unzip_command_outcome) THEN Exit(c, 1)
     ELSE for_artifact([c EXCEPT !.steps_done = @ + 1, !.i = @ + 1])

\* the check as it would be if one unpacked bundle were enough
check_steps_any(r) ==
  IF r.steps_done = 0 THEN Exit(r, 1) ELSE [r EXCEPT !.pc = "download_genesis_template"]

\* lines 150-152
check_steps(r) ==
  IF r.steps_done # 2 THEN Exit(r, 1) ELSE [r EXCEPT !.pc = "download_genesis_template"]

-----------------------------------------------------------------------------
(* Lines 154-200: genesis generation, chain-data publication, dispatch *)

\* lines 30-33 with 154-158: curl the template named by the comment
download_genesis_template(r, rc) ==
  LET c == [r EXCEPT !.template_command_outcome = <<rc>>,
                     !.calls = Append(@, Call("download_genesis_template",
                                 << <<"REPOSITORY_OWNER">>, r.template_name >>))]
  IN IF Failed(c.template_command_outcome) THEN Exit(c, 1)
     ELSE [c EXCEPT !.pc = "chmod_namadac"]

\* lines 37-40 with 160-164: chmod +x namadac; its failure is returned to the
\* caller, which exits
chmod_namadac(r, rc) ==
  LET c == [r EXCEPT !.calls = Append(@, Call("chmod", << <<"namadac">> >>))]
  IN IF rc # 0 THEN Exit([c EXCEPT !.template_command_outcome = <<rc>>], 1)
     ELSE [c EXCEPT !.pc = "init_network"]

\* lines 41-43 with 160-164: namadac utils init-network --chain-prefix namada-<short sha>
init_network(r, rc, out) ==
  LET c == [r EXCEPT !.template_command_outcome = <<rc>>, !.stdout = out,
                     !.calls = Append(@, Call("init_network",
                                 << <<"n", "a", "m", "a", "d", "a", "-">> \o r.short_sha >>))]
  IN IF Failed(c.template_command_outcome) THEN Exit(c, 1)
     ELSE [c EXCEPT !.pc = "read_stdout"]

\* the chain ID as it would be if cut from the last path component
chain_id_of_basename(genesis_folder_path) ==
  drop_last5(str_split(genesis_folder_path, <<"/">>)[Len(str_split(genesis_folder_path, <<"/">>))])

\* line 170: genesis_folder_path.split("/")[1][:-5]
chain_id_of(genesis_folder_path) ==
  drop_last5(str_split(genesis_folder_path, <<"/">>)[2])

\* lines 166-174: splitlines()[-2].split(" ")[4], then
\* splitlines()[-1].split(" ")[4], then the chain ID; a missing line, field
\* or path component is an IndexError, raised by the first statement that
\* meets it
read_stdout(r) ==
  LET n == Len(r.stdout) IN
  IF n < 2 \/ Len(r.stdout[n - 1]) < 5 THEN Raise(r)
  ELSE LET a == [r EXCEPT !.genesis_folder_path = r.stdout[n - 1][5]] IN
       IF Len(r.stdout[n]) < 5 THEN Raise(a)
       ELSE LET b == [a EXCEPT !.release_archive_path = r.stdout[n][5]] IN
            IF Len(str_split(b.genesis_folder_path, <<"/">>)) < 2 THEN Raise(b)
            ELSE [b EXCEPT !.chain_id = chain_id_of(b.genesis_folder_path),
                           !.pc = "zip_setup_folder"]

\* lines 26-27 with 176-179: zip -r <chain_id>-setup.zip .anoma
zip_setup_folder(r, rc) ==
  LET c == [r EXCEPT !.zip_setup_command_outcome = <<rc>>,
                     !.calls = Append(@, Call("zip_setup_folder", <<r.chain_id>>))]
  IN IF Failed(c.zip_setup_command_outcome) THEN Exit(c, 1)
     ELSE [c EXCEPT !.pc = "upload_release"]

\* lines 22-23 with 181-186: the release archive goes to the chain-data bucket
upload_release(r, rc) ==
  LET c == [r EXCEPT !.upload_release_command_outcome = <<rc>>,
                     !.calls = Append(@, Call("upload_chain_data_archive",
                                 <<r.release_archive_path, CHAIN_DATA_BUCKET>>))]
  IN IF Failed(c.upload_release_command_outcome) THEN Exit(c, 1)
     ELSE [c EXCEPT !.pc = "upload_setup"]

\* <chain_id>-setup.zip
SetupZip(chain_id) == chain_id \o <<"-", "s", "e", "t", "u", "p", ".", "z", "i", "p">>

\* lines 22-23 with 188-193: the setup zip goes to the chain-data bucket; the
\* check on line 189 reads upload_release_command_outcome
upload_setup(r, rc) ==
  LET c == [r EXCEPT !.upload_setup_command_outcome = <<rc>>,
                     !.calls = Append(@, Call("upload_chain_data_archive",
                                 <<SetupZip(r.chain_id), CHAIN_DATA_BUCKET>>))]
  IN IF Failed(c.upload_release_command_outcome) THEN Exit(c, 1)
     ELSE [c EXCEPT !.pc = "dispatch"]

\* lines 46-55 with 195-200: the repository dispatch, then the end of the script
dispatch_release_workflow(r, rc) ==
  LET c == [r EXCEPT !.dispath_command_outcome = <<rc>>,
                     !.calls = Append(@, Call("dispatch_release_workflow",
                                 << <<"release">>, r.chain_id >>))]
  IN IF Failed(c.dispath_command_outcome) THEN Exit(c, 1)
     ELSE Finish(c)

-----------------------------------------------------------------------------
(* The state machine.  `run` is the execution under study.  `twin` is a    *)
(* second execution of the same script that receives the same answers from *)
(* the environment, step for step; it is switched off (pc = "off") except  *)
(* under SpecTwin.                                                         *)

Off == [StartRun(<<>>) EXCEPT !.pc = "off"]

MembershipGate ==
  /\ run.pc = "membership"
  /\ \E state \in MembershipStates :
       /\ run' = membership_gate(run, state)
       /\ twin' = IF twin.pc = run.pc THEN membership_gate(twin, state) ELSE twin

PullsGet ==
  /\ run.pc = "pulls_get"
  /\ \E sha \in PullHeads :
       /\ run' = pulls_get(run, sha)
       /\ twin' = IF twin.pc = run.pc THEN pulls_get(twin, sha) ELSE twin

ParseParameters ==
  /\ run.pc = "parse_parameters"
  /\ run' = parse_parameters(run)
  /\ twin' = IF twin.pc = run.pc THEN parse_parameters(twin) ELSE twin

ListArtifacts ==
  /\ run.pc = "list_artifacts"
  /\ \E listing \in Listings :
       /\ run' = list_artifacts(run, listing)
       /\ twin' = IF twin.pc = run.pc THEN list_artifacts(twin, listing) ELSE twin

DownloadWasm ==
  /\ run.pc = "download_wasm"
  /\ \E rc \in ReturnCodes :
       /\ run' = download_artifact(run, "wasm", rc)
       /\ twin' = IF twin.pc = run.pc THEN download_artifact(twin, "wasm", rc) ELSE twin

UnzipWasm ==
  /\ run.pc = "unzip_wasm"
  /\ \E rc \in ReturnCodes :
       /\ run' = unzip_wasm(run, rc)
       /\ twin' = IF twin.pc = run.pc THEN unzip_wasm(twin, rc) ELSE twin

LoadChecksums ==
  /\ run.pc = "load_checksums"
  /\ \E manifest \in Manifests :
       /\ run' = load_checksums(run, manifest)
       /\ twin' = IF twin.pc = run.pc THEN load_checksums(twin, manifest) ELSE twin

PublishWasm ==
  /\ run.pc = "publish_wasm"
  /\ \E rc \in ReturnCodes :
       /\ run' = publish_wasm(run, rc)
       /\ twin' = IF twin.pc = run.pc THEN publish_wasm(twin, rc) ELSE twin

DoneWasm ==
  /\ run.pc = "done_wasm"
  /\ run' = done_wasm(run)
  /\ twin' = IF twin.pc = run.pc THEN done_wasm(twin) ELSE twin

DownloadBinaries ==
  /\ run.pc = "download_binaries"
  /\ \E rc \in ReturnCodes :
       /\ run' = download_artifact(run, "binaries", rc)
       /\ twin' = IF twin.pc = run.pc THEN download_artifact(twin, "binaries", rc) ELSE twin

UnzipBinaries ==
  /\ run.pc = "unzip_binaries"
  /\ \E rc \in ReturnCodes :
       /\ run' = unzip_binaries(run, rc)
       /\ twin' = IF twin.pc = run.pc THEN unzip_binaries(twin, rc) ELSE twin

CheckSteps ==
  /\ run.pc = "check_steps"
  /\ run' = check_steps(run)
  /\ twin' = IF twin.pc = run.pc THEN check_steps(twin) ELSE twin

DownloadGenesisTemplate ==
  /\ run.pc = "download_genesis_template"
  /\ \E rc \in ReturnCodes :
       /\ run' = download_genesis_template(run, rc)
       /\ twin' = IF twin.pc = run.pc THEN download_genesis_template(twin, rc) ELSE twin

ChmodNamadac ==
  /\ run.pc = "chmod_namadac"
  /\ \E rc \in ReturnCodes :
       /\ run' = chmod_namadac(run, rc)
       /\ twin' = IF twin.pc = run.pc THEN chmod_namadac(twin, rc) ELSE twin

\* the output of a failed namadac is never read: it is left empty
InitNetwork ==
  /\ run.pc = "init_network"
  /\ \E rc \in ReturnCodes :
       \E out \in IF rc = 0 THEN GenesisOutputs ELSE {<<>>} :
         /\ run' = init_network(run, rc, out)
         /\ twin' = IF twin.pc = run.pc THEN init_network(twin, rc, out) ELSE twin

ReadStdout ==
  /\ run.pc = "read_stdout"
  /\ run' = read_stdout(run)
  /\ twin' = IF twin.pc = run.pc THEN read_stdout(twin) ELSE twin

ZipSetupFolder ==
  /\ run.pc = "zip_setup_folder"
  /\ \E rc \in ReturnCodes :
       /\ run' = zip_setup_folder(run, rc)
       /\ twin' = IF twin.pc = run.pc THEN zip_setup_folder(twin, rc) ELSE twin

UploadRelease ==
  /\ run.pc = "upload_release"
  /\ \E rc \in ReturnCodes :
       /\ run' = upload_release(run, rc)
       /\ twin' = IF twin.pc = run.pc THEN upload_release(twin, rc) ELSE twin

UploadSetup ==
  /\ run.pc = "upload_setup"
  /\ \E rc \in ReturnCodes :
       /\ run' = upload_setup(run, rc)
       /\ twin' = IF twin.pc = run.pc THEN upload_setup(twin, rc) ELSE twin

Dispatch ==
  /\ run.pc = "dispatch"
  /\ \E rc \in ReturnCodes :
       /\ run' = dispatch_release_workflow(run, rc)
       /\ twin' = IF twin.pc = run.pc THEN dispatch_release_workflow(twin, rc) ELSE twin

\* the comment bodies of the pipeline's specification: no bracket, an empty
\* group, brackets the wrong way round, an unclosed group, a template and a
\* retention
Comments ==
  {<<"m">>, <<"[", "]">>, <<"]", "m", "[">>, <<"[", "m">>,
   <<"[", "m", ",", " ", "4", "]">>}

Init ==
  /\ \E body \in Comments : run = StartRun(body)
  /\ twin = Off

Next ==
  \/ MembershipGate \/ PullsGet \/ ParseParameters \/ ListArtifacts
  \/ DownloadWasm \/ UnzipWasm \/ LoadChecksums \/ PublishWasm \/ DoneWasm
  \/ DownloadBinaries \/ UnzipBinaries \/ CheckSteps
  \/ DownloadGenesisTemplate \/ ChmodNamadac \/ InitNetwork \/ ReadStdout
  \/ ZipSetupFolder \/ UploadRelease \/ UploadSetup \/ Dispatch

Spec == Init /\ [][Next]_vars

-----------------------------------------------------------------------------
(* SpecParse: lines 85-102 on every comment body of at most MaxBody        *)
(* characters                                                             *)

BodyChars == {"[", "]", ",", " ", "m"}

InitParse ==
  /\ \E body \in SeqsUpTo(BodyChars, MaxBody) : run = StartRun(body)
  /\ twin = Off

NextParse == MembershipGate \/ PullsGet \/ ParseParameters

SpecParse == InitParse /\ [][NextParse]_vars

-----------------------------------------------------------------------------
(* SpecChain: lines 166-200 on every genesis folder path of at most        *)
(* MaxPath characters.  InitChain is the state of Spec in which namadac    *)
(* has just returned 0, after an authorized comment [m, 4], one wasm and   *)
(* one binaries bundle and an empty manifest.                             *)

PathChars == {"/", "x", "y"}

BeforeInitNetwork ==
  LET d(name) == [name |-> name, head_sha |-> ShaA, expired |-> FALSE]
      listing == <<Artifact(d(WasmName), 1), Artifact(d(BinariesName), 2)>>
      s1 == pulls_get(membership_gate(StartRun(<<"[", "m", ",", " ", "4", "]">>),
                                      "active"), ShaA)
      s2 == list_artifacts(parse_parameters(s1), listing)
      s3 == done_wasm(load_checksums(unzip_wasm(download_artifact(s2, "wasm", 0), 0), <<>>))
      s4 == check_steps(unzip_binaries(download_artifact(s3, "binaries", 0), 0))
  IN chmod_namadac(download_genesis_template(s4, 0), 0)

InitChain ==
  /\ \E folder \in SeqsUpTo(PathChars, MaxPath) :
       run = init_network(BeforeInitNetwork, 0, GenesisOutput(folder, ArchivePath))
  /\ twin = Off

NextChain == ReadStdout \/ ZipSetupFolder \/ UploadRelease \/ UploadSetup \/ Dispatch

SpecChain == InitChain /\ [][NextChain]_vars

-----------------------------------------------------------------------------
(* SpecTwin: two executions whose comments differ in the retention period  *)
(* alone, answered alike by the environment                               *)

\* the comment "[<template>]" or "[<template>, <retention>]"
Comment(template, retention) ==
  <<"[">> \o template
          \o (IF retention = <<>> THEN <<>> ELSE <<",", " ">> \o retention)
          \o <<"]">>

Templates == {<<"m">>}

\* the retention periods of the two comments; <<>> is a comment without one
RetentionPairs == {<< <<>>, <<"4">> >>, << <<"4">>, <<"9">> >>}

InitTwin ==
  \E t \in Templates : \E p \in RetentionPairs :
    /\ run = StartRun(Comment(t, p[1]))
    /\ twin = StartRun(Comment(t, p[2]))

SpecTwin == InitTwin /\ [][Next]_vars

-----------------------------------------------------------------------------
(* Vocabulary of the properties *)

Least(S) == CHOOSE x \in S : \A y \in S : x <= y

Greatest(S) == CHOOSE x \in S : \A y \in S : y <= x

\* the positions of the calls of `op` in r.calls
CallsOf(r, op) == {k \in 1..Len(r.calls) : r.calls[k].op = op}

HasCall(r, op) == CallsOf(r, op) # {}

\* the authorized run has executed line 97
PastParse(r) ==
  r.user_membership = "active" /\ r.pc \notin {"membership", "pulls_get", "parse_parameters"}

\* the positions of the listing whose artifact is of the head commit, not
\* expired, and has `name` in its name
MatchingArtifacts(r, name) ==
  {k \in 1..Len(r.artifacts) :
     /\ Contains(name, r.artifacts[k].name)
     /\ r.artifacts[k].workflow_run.head_sha = r.head_sha
     /\ ~r.artifacts[k].expired}

\* artifact k was downloaded as <zip_name>.zip and that zip was unpacked next
Unpacked(r, k, zip_name) ==
  \E c \in 1..(Len(r.calls) - 1) :
    /\ r.calls[c] = Call("download_artifact",
                         <<r.artifacts[k].archive_download_url, <<zip_name>> >>)
    /\ r.calls[c + 1] = Call("unzip", << <<zip_name>> >>)

\* "[" immediately followed by a character other than "]"
OpensGroup(b) == \E i \in 1..(Len(b) - 1) : b[i] = "[" /\ b[i + 1] # "]"

\* a non-empty text enclosed in "[" and "]"
HasBracketedList(b) ==
  \E i \in 1..Len(b) : \E j \in (i + 2)..Len(b) :
    /\ b[i] = "[" /\ b[j] = "]"
    /\ \A k \in (i + 1)..(j - 1) : b[k] \notin {"[", "]"}

-----------------------------------------------------------------------------
(* C1 *)

\* C1: whenever the membership lookup has returned a state other than
\* "active", the process has exited with code 0 and the lookup is the only
\* external call of the run.
C1_AuthorizationGate ==
  (run.user_membership # "" /\ run.user_membership # "active") =>
    /\ run.pc = "exit" /\ run.exit_code = <<0>>
    /\ Len(run.calls) = 1
    /\ run.calls[1].op = "get_membership_for_user_in_org"

C1_Witness == run.pc = "exit" /\ run.user_membership = "inactive"

-----------------------------------------------------------------------------
(* C2 *)

\* C2: the template download is reached only if exactly one matching artifact
\* has 'wasm' in its name and exactly one has 'binaries' in its name, each
\* downloaded and unpacked; and when the listing lacks a matching artifact of
\* either kind, the run never reaches the template download and ends with
\* exit code 1.
C2_CompletenessGate ==
  /\ HasCall(run, "download_genesis_template") =>
       /\ Cardinality(MatchingArtifacts(run, WasmName)) = 1
       /\ Cardinality(MatchingArtifacts(run, BinariesName)) = 1
       /\ \A k \in MatchingArtifacts(run, WasmName) : Unpacked(run, k, "wasm")
       /\ \A k \in MatchingArtifacts(run, BinariesName) : Unpacked(run, k, "binaries")
  /\ ( /\ HasCall(run, "list_artifacts_for_repo")
       /\ \/ MatchingArtifacts(run, WasmName) = {}
          \/ MatchingArtifacts(run, BinariesName) = {} ) =>
       /\ ~HasCall(run, "download_genesis_template")
       /\ run.pc # "done"
       /\ run.pc = "exit" => run.exit_code = <<1>>

-----------------------------------------------------------------------------
(* C3 *)

\* the outcomes of the steps other than the wasm publication
FailFastOutcomes(r) ==
  {r.curl_command_outcome, r.unzip_command_outcome, r.template_command_outcome,
   r.zip_setup_command_outcome, r.upload_release_command_outcome,
   r.upload_setup_command_outcome, r.dispath_command_outcome}

\* C3: whenever a step other than the wasm publication has returned a
\* non-zero code, the process has exited with code 1 (so no later step runs).
C3_FailFast ==
  \A o \in FailFastOutcomes(run) :
    Failed(o) => run.pc = "exit" /\ run.exit_code = <<1>>

-----------------------------------------------------------------------------
(* C4 *)

\* C4: a run that ends with the script's last line has uploaded the release
\* archive and the setup zip successfully and has issued exactly one dispatch,
\* after both uploads, with event type 'release' and the chain ID; and no run
\* holds a dispatch call together with a failed chain-data upload.
C4_EndToEnd ==
  /\ run.pc = "done" =>
       /\ run.exit_code = <<0>>
       /\ run.upload_release_command_outcome = <<0>>
       /\ run.upload_setup_command_outcome = <<0>>
       /\ Cardinality(CallsOf(run, "upload_chain_data_archive")) = 2
       /\ Cardinality(CallsOf(run, "dispatch_release_workflow")) = 1
       /\ \A d \in CallsOf(run, "dispatch_release_workflow") :
            /\ run.calls[d].args = << <<"release">>, run.chain_id >>
            /\ \A u \in CallsOf(run, "upload_chain_data_archive") : u < d
  /\ HasCall(run, "dispatch_release_workflow") =>
       /\ ~Failed(run.upload_release_command_outcome)
       /\ ~Failed(run.upload_setup_command_outcome)

-----------------------------------------------------------------------------
(* C5 *)

\* when the loop over the manifest is over, the run's latest calls are the
\* uploads of the manifest's values, one per value, in order
C5_EveryValueUploaded ==
  run.pc = "done_wasm" =>
    /\ Len(run.calls) >= Len(run.checksums)
    /\ \A k \in 1..Len(run.checksums) :
         run.calls[Len(run.calls) - Len(run.checksums) + k]
           = Call("publish_wasm", <<run.checksums[k], WASM_BUCKET>>)

\* an upload, whatever its return code, is followed by the next upload or by
\* the end of the loop, never by an exit
C5_UploadNeverExits ==
  run.pc = "publish_wasm" =>
    /\ run'.pc \in {"publish_wasm", "done_wasm"}
    /\ run'.exit_code = <<>>
    /\ run'.calls = Append(run.calls,
                           Call("publish_wasm", <<run.checksums[run.w], WASM_BUCKET>>))

\* the end of the loop counts the wasm step and goes on with the artifacts
C5_StepCounted ==
  run.pc = "done_wasm" =>
    /\ run'.steps_done = run.steps_done + 1
    /\ run'.exit_code = <<>>

\* C5: an upload to the wasm bucket is attempted for every value of the
\* manifest whatever the other uploads returned; no upload makes the process
\* exit; and the wasm step is counted as done afterwards.
C5_LenientPublication ==
  /\ []C5_EveryValueUploaded
  /\ [][C5_UploadNeverExits /\ C5_StepCounted]_vars

C5_Witness ==
  /\ run.steps_done >= 1 /\ run.exit_code = <<>>
  /\ Len(run.checksums) >= 2
  /\ Failed(run.publish_wasm_command_outcome)

-----------------------------------------------------------------------------
(* C6 *)

\* the parameter group the script reads from body b: it starts after the
\* first "[" that a character other than "]" follows and runs to the next
\* "]", or to the end of the body when there is none
GroupStart(b) ==
  Least({i \in 1..(Len(b) - 1) : b[i] = "[" /\ b[i + 1] # "]"})

GroupOf(b) ==
  LET i == GroupStart(b)
      closes == {j \in (i + 1)..Len(b) : b[j] = "]"}
  IN SubSeq(b, i + 1, IF closes = {} THEN Len(b) ELSE Least(closes) - 1)

\* the positions of the separator ", " (a comma and one space) in g
SeparatorsOf(g) == {k \in 1..(Len(g) - 1) : g[k] = "," /\ g[k + 1] = " "}

FirstElement(g) ==
  IF SeparatorsOf(g) = {} THEN g ELSE SubSeq(g, 1, Least(SeparatorsOf(g)) - 1)

SecondElement(g) ==
  LET k == Least(SeparatorsOf(g))
      later == {j \in SeparatorsOf(g) : j > k}
  IN SubSeq(g, k + 2, IF later = {} THEN Len(g) ELSE Least(later) - 1)

\* C6 as amended: for every comment body in which some "[" is followed by a
\* character other than "]", the parse succeeds; the template name is the
\* group's text before its first ", " and the retention period is the text
\* between the first ", " and the next one (or the end of the group), and the
\* number 7 when the group holds no ", ".
C6_ParametersBySeparator ==
  (PastParse(run) /\ OpensGroup(run.pr_comment)) =>
    LET g == GroupOf(run.pr_comment) IN
      /\ run.pc = "list_artifacts"
      /\ run.template_name = FirstElement(g)
      /\ run.retention_period =
           IF SeparatorsOf(g) = {} THEN IntValue(7) ELSE StrValue(SecondElement(g))

C6_Witness ==
  /\ run.pc = "list_artifacts"
  /\ run.pr_comment = <<"[", "m", ",", " ", "m", "]">>
  /\ run.template_name = <<"m">>
  /\ run.retention_period = StrValue(<<"m">>)

\* s without its leading spaces
RECURSIVE LStrip(_)
LStrip(s) == IF s # <<>> /\ Head(s) = " " THEN LStrip(Tail(s)) ELSE s

\* the first bracketed group of b: the text between the first "[" that has a
\* "]" after it and that "]"
BracketedGroup(b) ==
  LET i == Least({k \in 1..Len(b) : b[k] = "[" /\ \E j \in (k + 1)..Len(b) : b[j] = "]"})
      j == Least({k \in (i + 1)..Len(b) : b[k] = "]"})
  IN SubSeq(b, i + 1, j - 1)

\* the elements of a comma-separated list: the texts between the commas,
\* without the spaces that follow a comma
CommaElements(g) ==
  [k \in 1..Len(str_split(g, <<",">>)) |->
     IF k = 1 THEN str_split(g, <<",">>)[k] ELSE LStrip(str_split(g, <<",">>)[k])]

\* every element is a word
IsCommaList(g) ==
  \A k \in 1..Len(CommaElements(g)) :
    /\ CommaElements(g)[k] # <<>>
    /\ \A c \in 1..Len(CommaElements(g)[k]) : CommaElements(g)[k][c] \notin {" ", "[", "]"}

\* C6 as stated: when the first bracketed group of the comment is a
\* comma-separated list, the template name is its first element and the
\* retention period its second element, or 7 when it has one element.
C6_ParametersByComma ==
  ( /\ PastParse(run)
    /\ \E i \in 1..Len(run.pr_comment) : \E j \in (i + 1)..Len(run.pr_comment) :
         run.pr_comment[i] = "[" /\ run.pr_comment[j] = "]"
    /\ IsCommaList(BracketedGroup(run.pr_comment)) ) =>
    LET e == CommaElements(BracketedGroup(run.pr_comment)) IN
      /\ run.pc = "list_artifacts"
      /\ run.template_name = e[1]
      /\ run.retention_period = IF Len(e) = 1 THEN IntValue(7) ELSE StrValue(e[2])

-----------------------------------------------------------------------------
(* C7 *)

SlashesOf(p) == {k \in 1..Len(p) : p[k] = "/"}

\* the text between the first "/" of p and the next one (or the end of p)
SecondComponent(p) ==
  LET k == Least(SlashesOf(p))
      later == {j \in SlashesOf(p) : j > k}
  IN SubSeq(p, k + 1, IF later = {} THEN Len(p) ELSE Least(later) - 1)

\* the text after the last "/" of p
Basename(p) ==
  IF SlashesOf(p) = {} THEN p ELSE SubSeq(p, Greatest(SlashesOf(p)) + 1, Len(p))

\* id is s without its last 5 characters (empty when s has at most 5)
IsWithoutLast5(id, s) ==
  /\ Len(id) = (IF Len(s) > 5 THEN Len(s) - 5 ELSE 0)
  /\ \A k \in 1..Len(id) : id[k] = s[k]

\* the folder path in the second-to-last line of namadac's output
FolderInStdout(r) == r.stdout[Len(r.stdout) - 1][5]

\* the chain ID is what the setup zip and the dispatch payload are given
ChainIdUsed(r) ==
  /\ \A k \in CallsOf(r, "zip_setup_folder") : r.calls[k].args = <<r.chain_id>>
  /\ \A k \in CallsOf(r, "dispatch_release_workflow") :
       r.calls[k].args = << <<"release">>, r.chain_id >>

\* C7 as amended: for every genesis folder path that holds a "/", the chain
\* ID given to the setup zip and to the dispatch payload is the path's second
\* "/"-separated component (the text between the first "/" and the next one)
\* without its last 5 characters.
C7_ChainIdFromSecondComponent ==
  (run.pc # "read_stdout" /\ SlashesOf(FolderInStdout(run)) # {}) =>
    /\ run.pc # "crashed"
    /\ run.genesis_folder_path = FolderInStdout(run)
    /\ IsWithoutLast5(run.chain_id, SecondComponent(run.genesis_folder_path))
    /\ ChainIdUsed(run)

C7_Witness ==
  /\ run.pc = "done"
  /\ run.genesis_folder_path = <<"x", "/", "y", "y", "y", "y", "y", "y">>
  /\ run.chain_id = <<"y">>
  /\ HasCall(run, "dispatch_release_workflow")

\* C7 as stated: the chain ID is the basename of the folder path without its
\* last 5 characters.
C7_ChainIdFromBasename ==
  (run.pc \notin {"read_stdout", "crashed"}) =>
    /\ run.genesis_folder_path = FolderInStdout(run)
    /\ IsWithoutLast5(run.chain_id, Basename(run.genesis_folder_path))
    /\ ChainIdUsed(run)

-----------------------------------------------------------------------------
(* C8 *)

\* the run stopped on the uncaught error of line 97, having made only the
\* membership lookup and the PR fetch
CrashedAtParse(r) ==
  /\ r.pc = "crashed" /\ r.exit_code = <<1>>
  /\ Len(r.calls) = 2
  /\ r.calls[1].op = "get_membership_for_user_in_org"
  /\ r.calls[2].op = "pulls.get"

\* C8 as amended: for an authorized user whose comment holds no "[" followed
\* by a character other than "]", the process ends with an uncaught error
\* (exit code 1, not 0) before the artifact listing is queried.
C8_NoGroupCrashes ==
  (PastParse(run) /\ ~OpensGroup(run.pr_comment)) => CrashedAtParse(run)

C8_Witness ==
  /\ CrashedAtParse(run)
  /\ run.pr_comment = <<"]", "m", "[">>

\* C8 as stated: for an authorized user whose comment holds no bracketed
\* parameter list, the process ends with an uncaught error before the
\* artifact listing is queried.
C8_NoBracketedListCrashes ==
  (PastParse(run) /\ ~HasBracketedList(run.pr_comment)) => CrashedAtParse(run)

-----------------------------------------------------------------------------
(* C9 *)

\* a chain-data upload or a dispatch is made only with steps_done = 2 and
\* after the template download that follows the check of line 150; every
\* wasm upload precedes that template download
C9_PublicationOrder ==
  /\ \A k \in CallsOf(run, "upload_chain_data_archive")
               \cup CallsOf(run, "dispatch_release_workflow") :
       /\ run.steps_done = 2
       /\ \E g \in CallsOf(run, "download_genesis_template") : g < k
  /\ \A w \in CallsOf(run, "publish_wasm") :
       \A g \in CallsOf(run, "download_genesis_template") : w < g

\* a step only adds a call to those made: no call is taken back
C9_NothingRolledBack ==
  /\ Len(run'.calls) >= Len(run.calls)
  /\ SubSeq(run'.calls, 1, Len(run.calls)) = run.calls

\* C9: wasm files are uploaded inside the artifact loop, before the check of
\* steps_done; nothing uploaded is taken back; no chain-data upload and no
\* dispatch is made before that check has passed.  (That a run can upload
\* wasm files and then exit 1 at the check is C9_Witness.)
C9_WasmBeforeCompleteness ==
  /\ []C9_PublicationOrder
  /\ [][C9_NothingRolledBack]_vars

C9_Witness ==
  /\ run.pc = "exit" /\ run.exit_code = <<1>>
  /\ run.i > Len(run.artifacts) /\ run.steps_done = 1
  /\ HasCall(run, "publish_wasm")
  /\ MatchingArtifacts(run, BinariesName) = {}
  /\ run.calls[Len(run.calls)].op = "publish_wasm"

-----------------------------------------------------------------------------
(* C10 *)

\* C10: two executions whose comments differ in the retention period alone,
\* and which get the same answers from the environment, are at the same
\* place after every step, have made the same external calls with the same
\* arguments, and have the same exit code.
C10_RetentionHasNoEffect ==
  twin.pc # "off" =>
    /\ twin.pc = run.pc
    /\ twin.calls = run.calls
    /\ twin.exit_code = run.exit_code

C10_Witness ==
  /\ run.pc = "done" /\ twin.pc = "done"
  /\ run.retention_period = IntValue(7)
  /\ twin.retention_period = StrValue(<<"4">>)
  /\ HasCall(twin, "dispatch_release_workflow")

====
